---- MODULE Spec2Model ----
(***************************************************************************)
(* The relay of src/relay.py: start_relay brings up a tmate session and    *)
(* starts the daemon thread watch_webpage, which polls WATCH_URL and       *)
(* injects each new command with send_keys_to_tmate.                       *)
(*                                                                         *)
(* A text is a sequence of characters; a character is a natural number and *)
(* 0 is the whitespace character.  Every call of the tmate binary is one   *)
(* step whose outcome is "exit0", "nonzero" (CalledProcessError under      *)
(* check=True), "timeout" (TimeoutExpired) or "notfound" (the command      *)
(* could not be run at all: FileNotFoundError).                            *)
(***************************************************************************)
EXTENDS Integers, Sequences, FiniteSets, TLC

\* ---------------------------------------------------------------- bounds
\* Iterations of the while True loop of watch_webpage that are explored.
MaxPolls == 4
\* Thread slots of the relay process (start_relay fills one of them).
MaxThreads == 2

\* ------------------------------------------------------ program constants
\* chunk_size=100, the default of send_keys_to_tmate.
ChunkSize == 100
\* max_retries = 3 in start_relay.
max_retries == 3
\* for attempt in range(3): the link-query attempts of start_relay.
LinkAttempts == 3
\* timeout = time.time() + 30
ReadyTimeout == 30
\* timeout=5 of the 'wait tmate-ready' call.
WaitTimeout == 5
\* time.sleep(1) between two readiness waits.
WaitSleep == 1

Threads == 1..MaxThreads

\* The value of a variable that holds None instead of a text.
None == <<-1>>

\* ------------------------------------------------------------------ texts
\* A text of n characters, none of them whitespace.
LongText(n) == [i \in 1..n |-> (i % 7) + 1]

\* The documents a successful GET of WATCH_URL can return: one without an
\* element of id "command", or one whose element holds the given raw text.
NoDiv == [has_div |-> FALSE, raw |-> <<>>]
Doc(raw) == [has_div |-> TRUE, raw |-> raw]
Docs == {NoDiv, Doc(<<>>), Doc(<<0>>), Doc(<<1>>), Doc(<<0, 1, 0>>), Doc(<<2>>)}

\* What requests.get + raise_for_status can do: raise RequestException or
\* return a document.
FetchFailed == [ok |-> FALSE, doc |-> NoDiv]
FetchResults == {FetchFailed} \cup {[ok |-> TRUE, doc |-> d] : d \in Docs}

\* The texts send_keys_to_tmate is called with directly.
SendTexts == {<<>>, <<1>>, <<1, 0, 2>>, LongText(99), LongText(100), LongText(101),
              LongText(200), LongText(201), LongText(250)}

\* ------------------------------------------------------- pure functions
Min(a, b) == IF a < b THEN a ELSE b

\* str.strip(): leading and trailing whitespace removed.
RECURSIVE lstrip(_)
lstrip(s) == IF s # <<>> /\ Head(s) = 0 THEN lstrip(Tail(s)) ELSE s

RECURSIVE rstrip(_)
rstrip(s) == IF s # <<>> /\ s[Len(s)] = 0 THEN rstrip(SubSeq(s, 1, Len(s) - 1)) ELSE s

\* div_cmd.get_text(strip=True) of an element holding one text node: the
\* node stripped (a node that strips to nothing contributes nothing).
get_text_strip(raw) == rstrip(lstrip(raw))

\* soup.find(id="command"): the element's raw text, or None.
find_command(doc) == IF doc.has_div THEN doc.raw ELSE None

\* Variant: the comparison with last_text left out.
is_new_command_no_dedup(current_text, last_text) ==
    current_text # <<>>

\* Variant: the truth test of current_text left out.
is_new_command_allow_empty(current_text, last_text) ==
    current_text # last_text

\* current_text and current_text != last_text
is_new_command(current_text, last_text) ==
    current_text # <<>> /\ current_text # last_text

\* Variant: last_text = current_text whatever send_keys_to_tmate returned.
advance_last_text_always(last_text, current_text, ret) == current_text

\* if send_keys_to_tmate(current_text): last_text = current_text
advance_last_text(last_text, current_text, ret) ==
    IF ret THEN current_text ELSE last_text

\* Variant: only the full chunks, the shorter last one dropped.
Chunks_drop_tail(text, chunk_size) ==
    [k \in 1..(Len(text) \div chunk_size) |->
        SubSeq(text, (k - 1) * chunk_size + 1, k * chunk_size)]

\* [text[i:i+chunk_size] for i in range(0, len(text), chunk_size)]
Chunks(text, chunk_size) ==
    [k \in 1..((Len(text) + chunk_size - 1) \div chunk_size) |->
        SubSeq(text, (k - 1) * chunk_size + 1, Min(k * chunk_size, Len(text)))]

\* The outcomes a call of the tmate binary can have.
\* has-session: exit 0 exactly when a session exists at the socket.
HasSessionOutcomes(sess) == (IF sess THEN {"exit0"} ELSE {"nonzero"}) \cup {"notfound"}

\* send-keys: needs the session; can also fail while it exists (no pane 0.0).
SendKeysOutcomes(sess) == (IF sess THEN {"exit0"} ELSE {}) \cup {"nonzero", "notfound"}

\* is_tmate_session_alive() for an outcome of the has-session call: "True",
\* "False", or "raise" when an exception leaves the function.
is_tmate_session_alive(outcome) ==
    CASE outcome = "exit0" -> "True"
      [] outcome = "nonzero" -> "False"
      [] OTHER -> "raise"

\* Variant: the message printed at every failed poll.
lost_message_every_time(connection_error_shown) == "lost"

\* if not connection_error_shown: print "Cannot connect" (the except branch)
lost_message(connection_error_shown) ==
    IF connection_error_shown THEN "none" ELSE "lost"

\* if connection_error_shown: print "restored" (after a successful GET)
restored_message(connection_error_shown) ==
    IF connection_error_shown THEN "restored" ELSE "none"

\* ------------------------------------------------------------------ state
VARIABLES
    session,        \* a tmate session exists at SOCKET_PATH
    second_session, \* two sessions exist at SOCKET_PATH
    proc,           \* the relay process: "running" or "exited"
    pc,             \* where start_relay (the main thread) stands
    attempt,        \* the loop variable of the retry loop being run
    elapsed,        \* time.time() - (timeout - 30) while the readiness loop runs
    ready,          \* a 'wait tmate-ready' call returned exit 0
    err,            \* the [ERROR] line start_relay printed, or "none"
    main_exc,       \* the function whose exception ended the main thread, or "none"
    created,        \* a new-session call returned 0
    ns_calls,       \* new-session calls issued
    waited,         \* a 'wait tmate-ready' call was issued
    links_queried,  \* a 'display -p' link query was issued
    told_running,   \* start_relay printed "Session is still running and receiving commands"
    kill_calls,     \* kill-session calls issued by the relay process
    w               \* the watcher threads: w[t] is the frame of watch_webpage

vars == <<session, second_session, proc, pc, attempt, elapsed, ready, err, main_exc, created,
          ns_calls, waited, links_queried, told_running, kill_calls, w>>

main_vars == <<pc, attempt, elapsed, ready, err, main_exc, created, ns_calls,
               waited, links_queried, told_running>>

\* The frame of a thread that was not started.
Unstarted ==
    [pc |-> "unstarted",
     \* locals of watch_webpage
     last_text |-> None, connection_error_shown |-> FALSE, current_text |-> None,
     \* locals of send_keys_to_tmate: the chunks not sent yet, the return value
     chunks |-> <<>>, ret |-> FALSE,
     \* the function whose exception ended the thread, or "none"
     exc |-> "none",
     \* observation: the send-keys calls of the running send_keys_to_tmate call
     sent |-> <<>>,
     \* observation: loop iterations begun
     polls |-> 0,
     \* observation: the latest call of send_keys_to_tmate: its text and result
     inj_text |-> None, inj_ok |-> FALSE,
     \* observation: the command events polled (non-empty texts): the latest
     \* one, the number of maximal runs of identical texts among them, the
     \* length of the latest run, the calls of send_keys_to_tmate and how
     \* many of them returned False
     prev_event |-> None, n_runs |-> 0, run_len |-> 0, n_calls |-> 0, n_fail |-> 0,
     \* observation: the outcome of the latest poll ("none", "ok", "fail"),
     \* the message it printed, the length of the latest run of failed polls,
     \* the "lost" messages printed during that run and the "restored"
     \* messages printed since
     \* observation: whether the document of the latest successful poll had
     \* the element of id "command"
     found |-> FALSE,
     cur_poll |-> "none", out |-> "none",
     streak |-> 0, lost_in_streak |-> 0, restored_after |-> 0,
     \* observation: kill_calls when the loop saw the session lost
     kills_seen |-> 0]

\* The state when 'relay start' is run: a session of an earlier run may exist.
Init ==
    /\ session \in BOOLEAN
    /\ second_session = FALSE
    /\ proc = "running"
    /\ pc = "check_installed"
    /\ attempt = 0
    /\ elapsed = 0
    /\ ready = FALSE
    /\ err = "none"
    /\ main_exc = "none"
    /\ created = FALSE
    /\ ns_calls = 0
    /\ waited = FALSE
    /\ links_queried = FALSE
    /\ told_running = FALSE
    /\ kill_calls = 0
    /\ w = [t \in Threads |-> Unstarted]

\* ------------------------------------------------------------ start_relay
\* subprocess.run(["tmate", "-V"], check=True), except (CalledProcessError,
\* FileNotFoundError): return
start_relay_check_installed ==
    /\ proc = "running" /\ pc = "check_installed"
    /\ \E o \in {"exit0", "nonzero", "notfound"} :
        IF o = "exit0"
        THEN pc' = "cleanup" /\ err' = err
        ELSE pc' = "returned" /\ err' = "not_installed"
    /\ UNCHANGED told_running
    /\ UNCHANGED <<session, second_session, proc, attempt, elapsed, ready, main_exc, created,
                   ns_calls, waited, links_queried, kill_calls, w>>

\* if is_tmate_session_alive():
start_relay_cleanup_check ==
    /\ proc = "running" /\ pc = "cleanup"
    /\ \E o \in HasSessionOutcomes(session) :
        CASE is_tmate_session_alive(o) = "True" ->
               pc' = "cleanup_kill" /\ main_exc' = main_exc
          [] is_tmate_session_alive(o) = "False" ->
               pc' = "create" /\ main_exc' = main_exc
          [] OTHER ->
               pc' = "crashed" /\ main_exc' = "is_tmate_session_alive"
    /\ UNCHANGED told_running
    /\ UNCHANGED <<session, second_session, proc, attempt, elapsed, ready, err, created, ns_calls,
                   waited, links_queried, kill_calls, w>>

\* kill-session ends one session at the socket.
kill_session(sess, second) ==
    IF second THEN <<TRUE, FALSE>> ELSE <<FALSE, FALSE>>

\* new-session -d adds a session at the socket, beside one that is there.
new_session(sess, second) ==
    IF sess THEN <<TRUE, TRUE>> ELSE <<TRUE, FALSE>>

\* kill-session of the existing session; CalledProcessError is only a warning.
start_relay_cleanup_kill ==
    /\ proc = "running" /\ pc = "cleanup_kill"
    /\ \E o \in (IF session THEN {"exit0"} ELSE {}) \cup {"nonzero", "notfound"} :
        /\ pc' = IF o = "notfound" THEN "crashed" ELSE "create"
        /\ main_exc' = IF o = "notfound" THEN "start_relay" ELSE main_exc
        /\ session' = IF o = "exit0" THEN kill_session(session, second_session)[1]
                                      ELSE session
        /\ second_session' = IF o = "exit0" THEN kill_session(session, second_session)[2]
                                             ELSE second_session
        /\ kill_calls' = IF o = "notfound" THEN kill_calls ELSE kill_calls + 1
    /\ UNCHANGED told_running
    /\ UNCHANGED <<proc, attempt, elapsed, ready, err, created, ns_calls, waited,
                   links_queried, w>>

\* Variant: the last attempt taken to be the one after the third.
is_last_attempt_off_by_one(a) == a = max_retries

\* attempt == max_retries - 1
is_last_attempt(a) == a = max_retries - 1

\* One iteration of "for attempt in range(max_retries)": a new-session call
\* (no check=True), then return, retry or break on its return code.
start_relay_create ==
    /\ proc = "running" /\ pc = "create"
    /\ \E o \in {"exit0", "nonzero", "notfound"} :
        /\ ns_calls' = IF o = "notfound" THEN ns_calls ELSE ns_calls + 1
        /\ CASE o = "notfound" ->
                  /\ pc' = "crashed"
                  /\ main_exc' = "start_relay"
                  /\ UNCHANGED <<session, second_session, attempt, err, elapsed, created>>
             [] o = "exit0" ->
                  \* break; timeout = time.time() + 30
                  /\ pc' = "wait_loop"
                  /\ session' = new_session(session, second_session)[1]
                  /\ second_session' = new_session(session, second_session)[2]
                  /\ created' = TRUE
                  /\ attempt' = 0
                  /\ elapsed' = 0
                  /\ UNCHANGED <<err, main_exc>>
             [] OTHER ->
                  IF is_last_attempt(attempt)
                  THEN /\ pc' = "returned"
                       /\ err' = "create_failed"
                       /\ UNCHANGED <<session, second_session, attempt, elapsed, created, main_exc>>
                  ELSE /\ pc' = "create"
                       /\ attempt' = attempt + 1
                       /\ UNCHANGED <<session, second_session, err, elapsed, created, main_exc>>
    /\ UNCHANGED told_running
    /\ UNCHANGED <<proc, ready, waited, links_queried, kill_calls, w>>

\* while time.time() < timeout:
start_relay_wait_loop ==
    /\ proc = "running" /\ pc = "wait_loop"
    /\ IF elapsed < ReadyTimeout
       THEN pc' = "wait_call" /\ elapsed' = elapsed
       ELSE pc' = "links" /\ elapsed' = 0
    /\ UNCHANGED told_running
    /\ UNCHANGED <<session, second_session, proc, attempt, ready, err, main_exc, created, ns_calls,
                   waited, links_queried, kill_calls, w>>

\* What 'wait tmate-ready' with timeout=5 can do after d seconds.
WaitOutcomes(sess, d) ==
    (IF sess THEN {"exit0"} ELSE {}) \cup {"nonzero", "notfound"}
        \cup (IF d = WaitTimeout THEN {"timeout"} ELSE {})

\* The body of the readiness loop: the wait call, then break, return (the
\* deadline has passed when the call fails) or sleep(1) and continue.
start_relay_wait_call ==
    /\ proc = "running" /\ pc = "wait_call"
    /\ waited' = TRUE
    /\ \E d \in 0..WaitTimeout : \E o \in WaitOutcomes(session, d) :
        CASE o = "notfound" ->
               /\ pc' = "crashed" /\ elapsed' = 0
               /\ main_exc' = "start_relay"
               /\ UNCHANGED <<ready, err>>
          [] o = "exit0" ->
               /\ pc' = "links" /\ elapsed' = 0
               /\ ready' = TRUE
               /\ UNCHANGED <<err, main_exc>>
          [] OTHER ->
               IF elapsed + d >= ReadyTimeout
               THEN /\ pc' = "returned" /\ elapsed' = 0
                    /\ err' = "timeout"
                    /\ UNCHANGED <<ready, main_exc>>
               ELSE /\ pc' = "wait_loop"
                    /\ elapsed' = elapsed + d + WaitSleep
                    /\ UNCHANGED <<ready, err, main_exc>>
    /\ UNCHANGED told_running
    /\ UNCHANGED <<session, second_session, proc, attempt, created, ns_calls, links_queried,
                   kill_calls, w>>

\* What a 'display -p' query with timeout=5 can do.
DisplayOutcomes(sess) ==
    (IF sess THEN {"exit0"} ELSE {}) \cup {"nonzero", "timeout", "notfound"}

\* Variant: the third failure of the link queries only logged, the run going
\* on to start the watcher.
links_attempt_failed_nonfatal ==
    IF attempt = LinkAttempts - 1
    THEN /\ pc' = "spawn"
         /\ attempt' = 0
         /\ err' = "links_failed"
         /\ UNCHANGED main_exc
    ELSE /\ pc' = "links"
         /\ attempt' = attempt + 1
         /\ UNCHANGED <<err, main_exc>>

\* except (CalledProcessError, TimeoutExpired): if attempt == 2: print the
\* error and return; else sleep(2) and continue with the next attempt.
links_attempt_failed ==
    IF attempt = LinkAttempts - 1
    THEN /\ pc' = "returned"
         /\ err' = "links_failed"
         /\ UNCHANGED <<attempt, main_exc>>
    ELSE /\ pc' = "links"
         /\ attempt' = attempt + 1
         /\ UNCHANGED <<err, main_exc>>

\* One iteration of "for attempt in range(3)", its first call: the query of
\* the ssh read-only link.
start_relay_links ==
    /\ proc = "running" /\ pc = "links"
    /\ links_queried' = TRUE
    /\ \E o \in DisplayOutcomes(session) :
        CASE o = "notfound" ->
               /\ pc' = "crashed"
               /\ main_exc' = "start_relay"
               /\ UNCHANGED <<attempt, err>>
          [] o = "exit0" ->
               /\ pc' = "links_web"
               /\ UNCHANGED <<attempt, err, main_exc>>
          [] OTHER -> links_attempt_failed
    /\ UNCHANGED told_running
    /\ UNCHANGED <<session, second_session, proc, elapsed, ready, created, ns_calls, waited,
                   kill_calls, w>>

\* The second call of the iteration: the query of the web read-only link,
\* then the two prints and break.
start_relay_links_web ==
    /\ proc = "running" /\ pc = "links_web"
    /\ \E o \in DisplayOutcomes(session) :
        CASE o = "notfound" ->
               /\ pc' = "crashed"
               /\ main_exc' = "start_relay"
               /\ UNCHANGED <<attempt, err>>
          [] o = "exit0" ->
               /\ pc' = "spawn"
               /\ attempt' = 0
               /\ UNCHANGED <<err, main_exc>>
          [] OTHER -> links_attempt_failed
    /\ UNCHANGED told_running
    /\ UNCHANGED <<session, second_session, proc, elapsed, ready, created, ns_calls, waited,
                   links_queried, kill_calls, w>>

\* Variant: a watcher started in every thread slot.
threads_to_start_all == Threads

\* The threads start_relay starts.
threads_to_start == {1}

\* threading.Thread(target=watch_webpage, daemon=True).start()
start_relay_spawn ==
    /\ proc = "running" /\ pc = "spawn"
    /\ pc' = "attach"
    /\ w' = [t \in Threads |->
               IF t \in threads_to_start
               THEN [w[t] EXCEPT !.pc = "loop_top"]
               ELSE w[t]]
    /\ UNCHANGED told_running
    /\ UNCHANGED <<session, second_session, proc, attempt, elapsed, ready, err, main_exc, created,
                   ns_calls, waited, links_queried, kill_calls>>

\* subprocess.run([... "attach"], check=True): blocks until the operator
\* detaches or the session ends.
start_relay_attach ==
    /\ proc = "running" /\ pc = "attach"
    /\ \E o \in {"exit0", "nonzero", "notfound"} :
        CASE o = "exit0" -> pc' = "after_attach" /\ main_exc' = main_exc
          [] o = "nonzero" -> pc' = "returned" /\ main_exc' = main_exc
          [] OTHER -> pc' = "crashed" /\ main_exc' = "start_relay"
    /\ UNCHANGED told_running
    /\ UNCHANGED <<session, second_session, proc, attempt, elapsed, ready, err, created, ns_calls,
                   waited, links_queried, kill_calls, w>>

\* if is_tmate_session_alive(): print "Session is still running ..."
start_relay_after_attach ==
    /\ proc = "running" /\ pc = "after_attach"
    /\ \E o \in HasSessionOutcomes(session) :
        CASE is_tmate_session_alive(o) = "raise" ->
               /\ pc' = "crashed" /\ main_exc' = "is_tmate_session_alive"
               /\ told_running' = told_running
          [] is_tmate_session_alive(o) = "True" ->
               /\ pc' = "returned" /\ main_exc' = main_exc
               /\ told_running' = TRUE
          [] OTHER ->
               /\ pc' = "returned" /\ main_exc' = main_exc
               /\ told_running' = told_running
    /\ UNCHANGED <<session, second_session, proc, attempt, elapsed, ready, err, created, ns_calls,
                   waited, links_queried, kill_calls, w>>

\* A thread that is running code.
Live(t) == w[t].pc \notin {"unstarted", "lost", "crashed", "killed"}

\* main() returns (or the exception ends the main thread): the process
\* exits and its daemon threads end with it.
process_exit ==
    /\ proc = "running" /\ pc \in {"returned", "crashed"}
    /\ proc' = "exited"
    /\ w' = [t \in Threads |-> IF Live(t) THEN [w[t] EXCEPT !.pc = "killed"] ELSE w[t]]
    /\ UNCHANGED <<session, second_session, kill_calls>> /\ UNCHANGED main_vars

\* The exit status of the process once main() is over: main() returns
\* nothing and calls no sys.exit, so it is 0 unless an uncaught exception
\* ended the main thread (then 1).
exit_code == IF main_exc # "none" THEN 1 ELSE 0

\* ------------------------------------------------------------- stop_relay
\* 'relay stop' run in another terminal: kill-session, CalledProcessError
\* caught.
stop_relay ==
    /\ session' = kill_session(session, second_session)[1]
    /\ second_session' = kill_session(session, second_session)[2]
    /\ UNCHANGED <<proc, kill_calls, w>> /\ UNCHANGED main_vars

\* The shell of the session exits (the operator types 'exit').
session_ends ==
    /\ session
    /\ session' = kill_session(session, second_session)[1]
    /\ second_session' = kill_session(session, second_session)[2]
    /\ UNCHANGED <<proc, kill_calls, w>> /\ UNCHANGED main_vars

\* ---------------------------------------------------------- watch_webpage
\* The top of "while True": if not is_tmate_session_alive(): break
watch_webpage_check_alive(t) ==
    /\ w[t].pc = "loop_top" /\ w[t].polls < MaxPolls
    /\ \E o \in HasSessionOutcomes(session) :
        w' = [w EXCEPT ![t] =
                CASE is_tmate_session_alive(o) = "True" ->
                       [@ EXCEPT !.pc = "fetch", !.polls = @ + 1]
                  [] is_tmate_session_alive(o) = "False" ->
                       [@ EXCEPT !.pc = "lost", !.polls = @ + 1,
                                 !.kills_seen = kill_calls]
                  [] OTHER ->
                       [@ EXCEPT !.pc = "crashed", !.polls = @ + 1,
                                 !.exc = "is_tmate_session_alive"]]
    /\ UNCHANGED <<session, second_session, proc, kill_calls>> /\ UNCHANGED main_vars

\* Variant: the RequestException of a failed GET not caught in the loop.
after_failed_fetch_raises(f) ==
    [f EXCEPT !.pc = "crashed",
              !.exc = "watch_webpage",
              !.cur_poll = "fail",
              !.streak = IF f.cur_poll = "fail" THEN @ + 1 ELSE 1]

\* The frame after the except branch of a failed GET.
after_failed_fetch(f) ==
    [f EXCEPT !.pc = "sleep",
              !.connection_error_shown = TRUE,
              !.out = lost_message(f.connection_error_shown),
              !.cur_poll = "fail",
              !.streak = IF f.cur_poll = "fail" THEN @ + 1 ELSE 1,
              !.lost_in_streak =
                  (IF f.cur_poll = "fail" THEN @ ELSE 0)
                  + (IF lost_message(f.connection_error_shown) = "lost" THEN 1 ELSE 0),
              !.restored_after = 0]

\* The frame after a successful GET of a document: the connection state,
\* then the element's text and the decision to inject it.
after_fetch(f, doc) ==
    LET div_cmd == find_command(doc)
        \* assigned only inside "if div_cmd:", else the local keeps its value
        current_text == IF div_cmd = None THEN f.current_text
                        ELSE get_text_strip(div_cmd)
        inject == div_cmd # None /\ is_new_command(current_text, f.last_text)
        event == div_cmd # None /\ current_text # <<>>
    IN [f EXCEPT !.pc = IF inject THEN "send_alive" ELSE "sleep",
                 !.connection_error_shown = FALSE,
                 !.out = restored_message(f.connection_error_shown),
                 !.current_text = current_text,
                 !.found = (div_cmd # None),
                 !.cur_poll = "ok",
                 !.restored_after =
                     @ + (IF restored_message(f.connection_error_shown) = "restored"
                          THEN 1 ELSE 0),
                 !.prev_event = IF event THEN current_text ELSE @,
                 !.n_runs = IF event /\ current_text # f.prev_event THEN @ + 1 ELSE @,
                 !.run_len = IF ~event THEN @
                             ELSE IF current_text # f.prev_event THEN 1 ELSE @ + 1,
                 !.n_calls = IF inject THEN @ + 1 ELSE @,
                 !.inj_text = IF inject THEN current_text ELSE @,
                 !.inj_ok = IF inject THEN FALSE ELSE @,
                 !.sent = IF inject THEN <<>> ELSE @]

\* requests.get + raise_for_status, and the rest of the try block up to the
\* call of send_keys_to_tmate.
watch_webpage_fetch(t) ==
    /\ w[t].pc = "fetch"
    /\ \E r \in FetchResults :
        w' = [w EXCEPT ![t] = IF r.ok THEN after_fetch(@, r.doc)
                                      ELSE after_failed_fetch(@)]
    /\ UNCHANGED <<session, second_session, proc, kill_calls>> /\ UNCHANGED main_vars

\* Variant: the loop left when send_keys_to_tmate returned False.
watch_webpage_sent_break_on_failure(t) ==
    /\ w[t].pc = "send_ret"
    /\ w' = [w EXCEPT ![t] =
               [@ EXCEPT !.pc = IF w[t].ret THEN "sleep" ELSE "lost", !.sent = <<>>,
                         !.last_text = advance_last_text(@, w[t].current_text, w[t].ret)]]
    /\ UNCHANGED <<session, second_session, proc, kill_calls>> /\ UNCHANGED main_vars

\* send_keys_to_tmate returned into watch_webpage:
\* if send_keys_to_tmate(current_text): last_text = current_text
watch_webpage_sent(t) ==
    /\ w[t].pc = "send_ret"
    /\ w' = [w EXCEPT ![t] =
               [@ EXCEPT !.pc = "sleep", !.sent = <<>>,
                         !.last_text = advance_last_text(@, w[t].current_text, w[t].ret)]]
    /\ UNCHANGED <<session, second_session, proc, kill_calls>> /\ UNCHANGED main_vars

\* time.sleep(interval_sec)
watch_webpage_sleep(t) ==
    /\ w[t].pc = "sleep"
    /\ w' = [w EXCEPT ![t].pc = "loop_top"]
    /\ UNCHANGED <<session, second_session, proc, kill_calls>> /\ UNCHANGED main_vars

\* ------------------------------------------------------ send_keys_to_tmate
\* A send-keys call as it is observed at the control socket.
ClearCall(ok) == [key |-> "C-u", text |-> <<>>, ok |-> ok]
ChunkCall(chunk, ok) == [key |-> "chunk", text |-> chunk, ok |-> ok]
EnterCall(ok) == [key |-> "Enter", text |-> <<>>, ok |-> ok]

\* The frame when send_keys_to_tmate returns ret.
returned(f, ret) ==
    [f EXCEPT !.pc = "send_ret", !.ret = ret, !.chunks = <<>>,
              !.inj_ok = ret, !.n_fail = IF ret THEN @ ELSE @ + 1]

\* Variant: the liveness check made but its result not acted on.
send_keys_to_tmate_alive_unchecked(t) ==
    /\ w[t].pc = "send_alive"
    /\ \E o \in HasSessionOutcomes(session) :
        w' = [w EXCEPT ![t] =
                IF is_tmate_session_alive(o) = "raise"
                THEN [@ EXCEPT !.pc = "crashed", !.exc = "is_tmate_session_alive"]
                ELSE [@ EXCEPT !.pc = "send_clear"]]
    /\ UNCHANGED <<session, second_session, proc, kill_calls>> /\ UNCHANGED main_vars

\* if not is_tmate_session_alive(): return False
send_keys_to_tmate_alive(t) ==
    /\ w[t].pc = "send_alive"
    /\ \E o \in HasSessionOutcomes(session) :
        w' = [w EXCEPT ![t] =
                CASE is_tmate_session_alive(o) = "True" -> [@ EXCEPT !.pc = "send_clear"]
                  [] is_tmate_session_alive(o) = "False" -> returned(@, FALSE)
                  [] OTHER -> [@ EXCEPT !.pc = "crashed",
                                        !.exc = "is_tmate_session_alive"]]
    /\ UNCHANGED <<session, second_session, proc, kill_calls>> /\ UNCHANGED main_vars

\* send-keys C-u, then chunks = [...]
send_keys_to_tmate_clear(t) ==
    /\ w[t].pc = "send_clear"
    /\ \E o \in SendKeysOutcomes(session) :
        w' = [w EXCEPT ![t] =
                CASE o = "exit0" ->
                       [@ EXCEPT !.sent = Append(@, ClearCall(TRUE)),
                                 !.chunks = Chunks(w[t].current_text, ChunkSize),
                                 !.pc = IF Chunks(w[t].current_text, ChunkSize) = <<>>
                                        THEN "send_enter" ELSE "send_chunk"]
                  [] o = "nonzero" ->
                       returned([@ EXCEPT !.sent = Append(@, ClearCall(FALSE))], FALSE)
                  [] OTHER -> [@ EXCEPT !.pc = "crashed", !.exc = "send_keys_to_tmate"]]
    /\ UNCHANGED <<session, second_session, proc, kill_calls>> /\ UNCHANGED main_vars

\* Variant: the chunk call made without check=True, a failure ignored.
send_keys_to_tmate_chunk_unchecked(t) ==
    /\ w[t].pc = "send_chunk"
    /\ \E o \in SendKeysOutcomes(session) :
        w' = [w EXCEPT ![t] =
                IF o = "notfound"
                THEN [@ EXCEPT !.pc = "crashed", !.exc = "send_keys_to_tmate"]
                ELSE [@ EXCEPT !.sent = Append(@, ChunkCall(Head(w[t].chunks), o = "exit0")),
                               !.chunks = Tail(@),
                               !.pc = IF Tail(w[t].chunks) = <<>>
                                      THEN "send_enter" ELSE "send_chunk"]]
    /\ UNCHANGED <<session, second_session, proc, kill_calls>> /\ UNCHANGED main_vars

\* One iteration of "for chunk in chunks": send-keys chunk, sleep(0.1)
send_keys_to_tmate_chunk(t) ==
    /\ w[t].pc = "send_chunk"
    /\ \E o \in SendKeysOutcomes(session) :
        w' = [w EXCEPT ![t] =
                CASE o = "exit0" ->
                       [@ EXCEPT !.sent = Append(@, ChunkCall(Head(w[t].chunks), TRUE)),
                                 !.chunks = Tail(@),
                                 !.pc = IF Tail(w[t].chunks) = <<>>
                                        THEN "send_enter" ELSE "send_chunk"]
                  [] o = "nonzero" ->
                       returned([@ EXCEPT !.sent =
                                    Append(@, ChunkCall(Head(w[t].chunks), FALSE))], FALSE)
                  [] OTHER -> [@ EXCEPT !.pc = "crashed", !.exc = "send_keys_to_tmate"]]
    /\ UNCHANGED <<session, second_session, proc, kill_calls>> /\ UNCHANGED main_vars

\* send-keys Enter, return True
send_keys_to_tmate_enter(t) ==
    /\ w[t].pc = "send_enter"
    /\ \E o \in SendKeysOutcomes(session) :
        w' = [w EXCEPT ![t] =
                CASE o = "exit0" ->
                       returned([@ EXCEPT !.sent = Append(@, EnterCall(TRUE))], TRUE)
                  [] o = "nonzero" ->
                       returned([@ EXCEPT !.sent = Append(@, EnterCall(FALSE))], FALSE)
                  [] OTHER -> [@ EXCEPT !.pc = "crashed", !.exc = "send_keys_to_tmate"]]
    /\ UNCHANGED <<session, second_session, proc, kill_calls>> /\ UNCHANGED main_vars

\* --------------------------------------------------------- specification
Next ==
    \/ start_relay_check_installed
    \/ start_relay_cleanup_check
    \/ start_relay_cleanup_kill
    \/ start_relay_create
    \/ start_relay_wait_loop
    \/ start_relay_wait_call
    \/ start_relay_links
    \/ start_relay_links_web
    \/ start_relay_spawn
    \/ start_relay_attach
    \/ start_relay_after_attach
    \/ process_exit
    \/ stop_relay
    \/ session_ends
    \/ \E t \in Threads : watch_webpage_check_alive(t)
    \/ \E t \in Threads : watch_webpage_fetch(t)
    \/ \E t \in Threads : watch_webpage_sent(t)
    \/ \E t \in Threads : watch_webpage_sleep(t)
    \/ \E t \in Threads : send_keys_to_tmate_alive(t)
    \/ \E t \in Threads : send_keys_to_tmate_clear(t)
    \/ \E t \in Threads : send_keys_to_tmate_chunk(t)
    \/ \E t \in Threads : send_keys_to_tmate_enter(t)

Spec == Init /\ [][Next]_vars

\* ------------------------------------------- send_keys_to_tmate on its own
\* send_keys_to_tmate(text) called directly, by thread 1, with any of the
\* texts of SendTexts, a session existing or not.
InitSend ==
    /\ session \in BOOLEAN
    /\ second_session = FALSE
    /\ proc = "running"
    /\ pc = "direct_call"
    /\ attempt = 0
    /\ elapsed = 0
    /\ ready = FALSE
    /\ err = "none"
    /\ main_exc = "none"
    /\ created = FALSE
    /\ ns_calls = 0
    /\ waited = FALSE
    /\ links_queried = FALSE
    /\ told_running = FALSE
    /\ kill_calls = 0
    /\ \E text \in SendTexts :
        w = [t \in Threads |->
               IF t = 1
               THEN [Unstarted EXCEPT !.pc = "send_alive", !.current_text = text,
                                      !.inj_text = text, !.n_calls = 1]
               ELSE Unstarted]

NextSend ==
    \/ \E t \in Threads : send_keys_to_tmate_alive(t)
    \/ \E t \in Threads : send_keys_to_tmate_clear(t)
    \/ \E t \in Threads : send_keys_to_tmate_chunk(t)
    \/ \E t \in Threads : send_keys_to_tmate_enter(t)
    \/ session_ends

SpecSend == InitSend /\ [][NextSend]_vars

\* ------------------------------------------ watch_web of src/relay/relay.py
\* 'relay watch-web' of the standalone CLI: watch_web runs in the main
\* thread of its own process (frame 1), with no liveness check; the session
\* is started and stopped by 'relay start' and 'relay stop' run elsewhere.
InitWeb ==
    /\ session \in BOOLEAN
    /\ second_session = FALSE
    /\ proc = "running"
    /\ pc = "watch_web"
    /\ attempt = 0
    /\ elapsed = 0
    /\ ready = FALSE
    /\ err = "none"
    /\ main_exc = "none"
    /\ created = FALSE
    /\ ns_calls = 0
    /\ waited = FALSE
    /\ links_queried = FALSE
    /\ told_running = FALSE
    /\ kill_calls = 0
    /\ w = [t \in Threads |->
             IF t = 1 THEN [Unstarted EXCEPT !.pc = "web_fetch"] ELSE Unstarted]

\* 'relay start' of the standalone CLI, run in another terminal:
\* new-session -d creates a session at the socket (no third one here).
start_relay_standalone ==
    /\ ~second_session
    /\ session' = new_session(session, second_session)[1]
    /\ second_session' = new_session(session, second_session)[2]
    /\ UNCHANGED <<proc, kill_calls, w>> /\ UNCHANGED main_vars

\* The frame after the except branch of a failed GET: print, sleep, continue.
after_failed_web_fetch(f) ==
    [f EXCEPT !.pc = "web_sleep", !.cur_poll = "fail", !.polls = @ + 1]

\* The frame after a successful GET: the element's text and the decision to
\* call send_to_tmate.
after_web_fetch(f, doc) ==
    LET div_cmd == find_command(doc)
        current_text == IF div_cmd = None THEN f.current_text
                        ELSE get_text_strip(div_cmd)
        inject == div_cmd # None /\ is_new_command(current_text, f.last_text)
    IN [f EXCEPT !.pc = IF inject THEN "web_send" ELSE "web_sleep",
                 !.polls = @ + 1,
                 !.cur_poll = "ok",
                 !.current_text = current_text,
                 !.found = (div_cmd # None),
                 !.n_calls = IF inject THEN @ + 1 ELSE @,
                 !.inj_text = IF inject THEN current_text ELSE @,
                 !.inj_ok = IF inject THEN FALSE ELSE @,
                 !.sent = IF inject THEN <<>> ELSE @]

\* The top of "while True" of watch_web: requests.get + raise_for_status,
\* then the parse and the comparison with last_seen_text.
watch_web_fetch(t) ==
    /\ w[t].pc = "web_fetch" /\ w[t].polls < MaxPolls
    /\ \E r \in FetchResults :
        w' = [w EXCEPT ![t] = IF r.ok THEN after_web_fetch(@, r.doc)
                                      ELSE after_failed_web_fetch(@)]
    /\ UNCHANGED <<session, second_session, proc, kill_calls>> /\ UNCHANGED main_vars

\* The one send-keys call of send_to_tmate: the text and Enter together.
WebCall(text, ok) == [key |-> "text+Enter", text |-> text, ok |-> ok]

\* last_seen_text = current_text, whatever send_to_tmate did.
advance_last_seen_text(last_seen_text, current_text, ok) == current_text

\* send_to_tmate(current_text), which catches CalledProcessError and returns
\* nothing, then last_seen_text = current_text.
watch_web_send(t) ==
    /\ w[t].pc = "web_send"
    /\ \E o \in SendKeysOutcomes(session) :
        w' = [w EXCEPT ![t] =
                IF o = "notfound"
                THEN [@ EXCEPT !.pc = "crashed", !.exc = "send_to_tmate"]
                ELSE [@ EXCEPT !.pc = "web_sleep",
                               !.sent = <<WebCall(w[t].current_text, o = "exit0")>>,
                               !.inj_ok = (o = "exit0"),
                               !.n_fail = IF o = "exit0" THEN @ ELSE @ + 1,
                               !.last_text = advance_last_seen_text(
                                                 @, w[t].current_text, o = "exit0")]]
    /\ UNCHANGED <<session, second_session, proc, kill_calls>> /\ UNCHANGED main_vars

\* time.sleep(interval) at the end of the iteration (or before continue).
watch_web_sleep(t) ==
    /\ w[t].pc = "web_sleep"
    /\ w' = [w EXCEPT ![t].pc = "web_fetch"]
    /\ UNCHANGED <<session, second_session, proc, kill_calls>> /\ UNCHANGED main_vars

NextWeb ==
    \/ \E t \in Threads : watch_web_fetch(t)
    \/ \E t \in Threads : watch_web_send(t)
    \/ \E t \in Threads : watch_web_sleep(t)
    \/ start_relay_standalone
    \/ stop_relay
    \/ session_ends

SpecWeb == InitWeb /\ [][NextWeb]_vars

\* ------------------------------------------------------------- properties
\* A thread that is inside a call of send_keys_to_tmate (the call has not
\* yet returned into the loop).
InSend(t) == w[t].pc \in {"send_alive", "send_clear", "send_chunk", "send_enter", "send_ret"}

\* A thread at an iteration boundary of watch_webpage.
AtBoundary(t) == w[t].pc \in {"sleep", "loop_top"}

\* C1: last_text advances only when send_keys_to_tmate returned True, and
\* then to the injected text; a call that returned False leaves it
\* unchanged; and a poll that yields the text of the latest, failed
\* injection calls send_keys_to_tmate with it again.
C1_FailureKeepsLastText ==
    [][\A t \in Threads :
        /\ (w[t].pc = "send_ret" /\ ~w[t].ret) => w'[t].last_text = w[t].last_text
        /\ w'[t].last_text # w[t].last_text =>
              /\ w[t].pc = "send_ret" /\ w[t].ret /\ w[t].inj_ok
              /\ w'[t].last_text = w[t].inj_text
        /\ ( /\ w[t].pc = "fetch" /\ w'[t].pc \in {"send_alive", "sleep"}
             /\ w'[t].cur_poll = "ok"
             /\ w[t].inj_text # None /\ ~w[t].inj_ok
             /\ w'[t].found /\ w'[t].current_text = w[t].inj_text )
           => /\ w'[t].pc = "send_alive"
              /\ w'[t].n_calls = w[t].n_calls + 1
              /\ w'[t].inj_text = w[t].inj_text]_vars

\* C1 witness: one run of identical texts, its first injection failed, and
\* send_keys_to_tmate is entered a second time for it, the session existing.
C1_Witness ==
    \E t \in Threads :
        /\ w[t].pc = "send_alive" /\ session
        /\ w[t].n_runs = 1 /\ w[t].run_len = 2
        /\ w[t].n_calls = 2 /\ w[t].n_fail = 1
        /\ w[t].last_text = None

\* C2 as stated: at every iteration boundary the calls of
\* send_keys_to_tmate are as many as the maximal runs of identical texts
\* polled so far.
C2_OneInjectionPerRun ==
    \A t \in Threads : AtBoundary(t) => w[t].n_calls = w[t].n_runs

\* C2 amended: as long as no call of send_keys_to_tmate has returned False,
\* at every iteration boundary the calls are as many as the maximal runs of
\* identical texts polled so far, and the latest call injected the text of
\* the latest run, which is then the dedup boundary.
C2_OneInjectionPerRunUnlessFailed ==
    \A t \in Threads :
        (AtBoundary(t) /\ w[t].n_fail = 0) =>
            /\ w[t].n_calls = w[t].n_runs
            /\ w[t].n_runs > 0 =>
                  /\ w[t].inj_text = w[t].prev_event
                  /\ w[t].inj_ok
                  /\ w[t].last_text = w[t].prev_event

\* C2 witness: four polls, a text and then another text three times in a
\* row, two calls of send_keys_to_tmate, none failed.
C2_Witness ==
    \E t \in Threads :
        /\ w[t].pc = "sleep" /\ w[t].polls = 4
        /\ w[t].n_runs = 2 /\ w[t].run_len = 3
        /\ w[t].n_calls = 2 /\ w[t].n_fail = 0

\* C3 as stated: while no readiness wait has reported ready, no link query
\* is issued and no watcher thread is started, and start_relay, once it
\* returned after waiting, has printed the timeout error.
C3_TimeoutStopsStartup ==
    ~ready =>
        /\ ~links_queried
        /\ \A t \in Threads : w[t].pc = "unstarted"
        /\ (waited /\ pc = "returned") => err = "timeout"

\* C4 as stated: when the loop has stopped on a failed liveness check and
\* the relay process has ended, the process has issued exactly one
\* kill-session call since the loop saw the loss.
C4_LossTearsDownOnce ==
    \A t \in Threads :
        (w[t].pc = "lost" /\ proc = "exited") => kill_calls = w[t].kills_seen + 1

\* C5: during and after a run of N >= 1 failed polls exactly one "lost"
\* message was printed for it; once a successful poll has followed, exactly
\* one "restored" message was printed since; a successful poll prints
\* "restored" or nothing, a failed one "lost" or nothing, and while no poll
\* has failed nothing is printed.
C5_DebouncedMessages ==
    \A t \in Threads :
        /\ w[t].streak >= 1 => w[t].lost_in_streak = 1
        /\ (w[t].streak >= 1 /\ w[t].cur_poll = "ok") => w[t].restored_after = 1
        /\ w[t].cur_poll = "fail" => w[t].out = (IF w[t].streak = 1 THEN "lost" ELSE "none")
        /\ w[t].cur_poll = "ok" => w[t].out \in {"none", "restored"}
        /\ w[t].streak = 0 => w[t].out = "none"

\* C5 witness: three failed polls in a row, then a successful one.
C5_Witness ==
    \E t \in Threads :
        /\ w[t].polls = 4 /\ w[t].streak = 3 /\ w[t].cur_poll = "ok"
        /\ w[t].out = "restored" /\ w[t].lost_in_streak = 1
        /\ w[t].restored_after = 1

\* The chunk calls among the send-keys calls observed.
IsChunkCall(c) == c.key = "chunk"
ChunkCalls(t) == SelectSeq(w[t].sent, IsChunkCall)

\* The texts of a sequence of calls, concatenated in order.
RECURSIVE Concat(_)
Concat(calls) == IF calls = <<>> THEN <<>> ELSE Head(calls).text \o Concat(Tail(calls))

\* C6: the chunks sent are each at most 100 characters and never empty, and
\* their concatenation in send order is at any moment a prefix of the text;
\* when send_keys_to_tmate returns True the concatenation is the whole text,
\* the first call was the clear-line call and the calls were C-u, the
\* chunks, Enter; for the empty text that is C-u and Enter with no chunk.
C6_ChunkRoundTrip ==
    \A t \in Threads :
        /\ \A i \in 1..Len(ChunkCalls(t)) :
              /\ Len(ChunkCalls(t)[i].text) <= ChunkSize
              /\ Len(ChunkCalls(t)[i].text) >= 1
        /\ InSend(t) =>
              /\ Len(Concat(ChunkCalls(t))) <= Len(w[t].current_text)
              /\ Concat(ChunkCalls(t)) =
                     SubSeq(w[t].current_text, 1, Len(Concat(ChunkCalls(t))))
        /\ w[t].pc \in {"send_chunk", "send_enter"} => w[t].sent[1] = ClearCall(TRUE)
        /\ (w[t].pc = "send_ret" /\ w[t].ret) =>
              /\ Concat(ChunkCalls(t)) = w[t].current_text
              /\ w[t].sent[1] = ClearCall(TRUE)
              /\ w[t].sent[Len(w[t].sent)] = EnterCall(TRUE)
              /\ Len(w[t].sent) = Len(ChunkCalls(t)) + 2
              /\ w[t].current_text = <<>> => ChunkCalls(t) = <<>>

\* C6 witness: a text of 201 characters sent in three chunks, True returned.
C6_Witness ==
    \E t \in Threads :
        /\ w[t].pc = "send_ret" /\ w[t].ret
        /\ Len(w[t].current_text) = 201
        /\ Len(ChunkCalls(t)) = 3
        /\ Len(ChunkCalls(t)[3].text) = 1

\* C7: a successful poll whose document has no element of id "command", or
\* whose element's text is empty after stripping, goes on to the sleep
\* without calling send_keys_to_tmate, without a send-keys call and with
\* last_text unchanged.
C7_NoTextNoInjection ==
    [][\A t \in Threads :
        ( /\ w[t].pc = "fetch" /\ w'[t].pc \in {"send_alive", "sleep"}
          /\ w'[t].cur_poll = "ok"
          /\ (~w'[t].found \/ w'[t].current_text = <<>>) )
        => /\ w'[t].pc = "sleep"
           /\ w'[t].n_calls = w[t].n_calls
           /\ w'[t].sent = w[t].sent
           /\ w'[t].last_text = w[t].last_text]_vars

\* C7 witness: after a delivered command, a poll whose element holds only
\* whitespace: no second call, last_text kept.
C7_Witness ==
    \E t \in Threads :
        /\ w[t].pc = "sleep" /\ w[t].cur_poll = "ok"
        /\ w[t].current_text = <<>>
        /\ w[t].last_text = <<1>>
        /\ w[t].n_calls = 1

\* C8 as stated: no exception ever leaves is_tmate_session_alive, in the
\* main thread or in a watcher thread.
C8_AliveCheckNeverRaises ==
    /\ main_exc # "is_tmate_session_alive"
    /\ \A t \in Threads : w[t].exc # "is_tmate_session_alive"

\* C9: at most max_retries new-session calls are issued; the retry loop is
\* left as soon as one returned 0; when the last one failed too start_relay
\* has returned with the creation error, and then no readiness wait, no link
\* query and no watcher thread was started.
C9_BoundedCreation ==
    /\ ns_calls <= max_retries
    /\ created => pc # "create"
    /\ (ns_calls = max_retries /\ ~created) => (pc = "returned" /\ err = "create_failed")
    /\ err = "create_failed" =>
          /\ ns_calls = max_retries /\ ~created
          /\ pc = "returned"
          /\ ~waited /\ ~links_queried
          /\ \A t \in Threads : w[t].pc = "unstarted"

\* C9 witness: three failed new-session calls, the process ended.
C9_Witness ==
    /\ err = "create_failed" /\ ns_calls = 3 /\ proc = "exited"

\* C10: at most one watcher thread was ever started and at most one thread
\* is inside send_keys_to_tmate.
C10_OneInjectionInFlight ==
    /\ Cardinality({t \in Threads : w[t].pc # "unstarted"}) <= 1
    /\ Cardinality({t \in Threads : InSend(t)}) <= 1

\* C10 witness: the watcher sends a chunk of its second command while the
\* main thread is blocked in attach.
C10_Witness ==
    \E t \in Threads :
        /\ w[t].pc = "send_chunk" /\ w[t].n_calls = 2 /\ w[t].last_text # None
        /\ pc = "attach"

\* C11 as stated: when the process has ended after start_relay printed the
\* creation error or the timeout error its exit code is not 0, and it is 0
\* when start_relay ended with no error and no exception.
C11_ExitCodeTellsFailure ==
    proc = "exited" =>
        /\ err \in {"create_failed", "timeout"} => exit_code # 0
        /\ (err = "none" /\ main_exc = "none") => exit_code = 0

\* C18 as stated: a watcher thread is never ended by the process between
\* two send-keys calls of an injection: when it is ended with calls of an
\* injection made, the latest of them failed or was Enter.
C18_InjectionNotCutShort ==
    \A t \in Threads :
        (w[t].pc = "killed" /\ w[t].sent # <<>>) =>
            \/ ~w[t].sent[Len(w[t].sent)].ok
            \/ w[t].sent[Len(w[t].sent)] = EnterCall(TRUE)

\* C19 as stated: once start_relay has told the operator that the session
\* is still running and receiving commands, no watcher thread is ended by
\* the process while the session exists.
C19_WatcherSurvivesDetach ==
    \A t \in Threads :
        (told_running /\ session) => w[t].pc # "killed"

\* The send-keys calls a complete run of send_keys_to_tmate(text) makes, as
\* pairs of key and text: C-u, the chunks in order, Enter.
ExpectedCalls(text) ==
    <<<<"C-u", <<>>>>>>
    \o [k \in 1..Len(Chunks(text, ChunkSize)) |-> <<"chunk", Chunks(text, ChunkSize)[k]>>]
    \o <<<<"Enter", <<>>>>>>

\* C12: the send-keys calls of an execution of send_keys_to_tmate are a
\* prefix of C-u, chunk 1 .. chunk n, Enter; every call before the latest
\* succeeded, so Enter is sent only after C-u and all chunks succeeded and
\* nothing is sent after a failed call; after a failed call the function
\* has returned False; it returns True exactly when its latest call was a
\* successful Enter.
C12_CallsArePrefixOfScript ==
    \A t \in Threads :
        LET f == w[t]
            n == Len(f.sent)
        IN /\ n > 0 =>
                /\ n <= Len(ExpectedCalls(f.current_text))
                /\ \A i \in 1..n :
                      <<f.sent[i].key, f.sent[i].text>> = ExpectedCalls(f.current_text)[i]
                /\ \A i \in 1..(n - 1) : f.sent[i].ok
                /\ ~f.sent[n].ok =>
                      /\ f.pc \notin {"send_alive", "send_clear", "send_chunk", "send_enter"}
                      /\ ~f.inj_ok
           /\ f.pc = "send_ret" =>
                (f.ret <=> (n > 0 /\ f.sent[n] = EnterCall(TRUE)))

\* C12 witness: a text of 250 characters whose second chunk fails: three
\* calls were made, no third chunk and no Enter, False returned.
C12_Witness ==
    \E t \in Threads :
        /\ w[t].pc = "send_ret" /\ ~w[t].ret
        /\ Len(w[t].current_text) = 250
        /\ Len(w[t].sent) = 3
        /\ w[t].sent[3].key = "chunk" /\ ~w[t].sent[3].ok

\* C13: when send_keys_to_tmate makes its liveness check while no session
\* exists, it ends there: it returns False (or the check raises) and no
\* send-keys call has been made.
C13_NotAliveSendsNothing ==
    [][\A t \in Threads :
        (w[t].pc = "send_alive" /\ ~session /\ w'[t] # w[t]) =>
            /\ w'[t].pc \in {"send_ret", "crashed", "killed"}
            /\ w'[t].sent = <<>>
            /\ w'[t].pc = "send_ret" => (~w'[t].ret /\ ~w'[t].inj_ok)]_vars

\* C13 witness: send_keys_to_tmate has returned False with no session and
\* no send-keys call made.
C13_Witness ==
    \E t \in Threads :
        /\ w[t].pc = "send_ret" /\ ~w[t].ret
        /\ ~session /\ w[t].sent = <<>>
        /\ w[t].current_text \notin {None, <<>>}

\* C14 as stated: when all three link-query attempts of start_relay have
\* failed, the run continues: the watcher thread is started (or about to be).
C14_LinkFailureNotFatal ==
    err = "links_failed" =>
        \/ pc \in {"spawn", "attach", "after_attach"}
        \/ \E t \in Threads : w[t].pc # "unstarted"

\* C14 amended: when all three link-query attempts of start_relay have
\* failed, start_relay has returned after its error message: no watcher
\* thread was started and the attach was not made.
C14_LinkFailureReturns ==
    err = "links_failed" =>
        /\ pc = "returned" /\ links_queried
        /\ ~told_running
        /\ \A t \in Threads : w[t].pc = "unstarted"

\* C14 witness: the process has exited after the link queries failed, the
\* session it created still there and ready.
C14_Witness ==
    /\ err = "links_failed" /\ proc = "exited"
    /\ created /\ ready /\ session

\* C15: a failed injection does not stop watch_webpage. When
\* send_keys_to_tmate has returned False the thread goes on to the sleep of
\* that iteration, from the sleep to the top of the loop, and from there,
\* the session alive, to the next fetch; and once an injection has failed,
\* a fetch that yields a non-empty text other than last_text (the text that
\* failed included) calls send_keys_to_tmate with it. Only the end of the
\* process, or the exception of the liveness check, ends the thread there.
C15_FailedInjectionKeepsLooping ==
    [][\A t \in Threads :
        /\ (w[t].pc = "send_ret" /\ ~w[t].ret /\ w'[t] # w[t]) =>
              w'[t].pc \in {"sleep", "killed"}
        /\ (w[t].pc = "sleep" /\ w[t].n_fail > 0 /\ w'[t] # w[t]) =>
              w'[t].pc \in {"loop_top", "killed"}
        /\ (w[t].pc = "loop_top" /\ w[t].n_fail > 0 /\ w'[t] # w[t] /\ session) =>
              w'[t].pc \in {"fetch", "crashed", "killed"}
        /\ ( /\ w[t].pc = "fetch" /\ w[t].n_fail > 0
             /\ w'[t].pc \notin {"fetch", "killed"} /\ w'[t].cur_poll = "ok"
             /\ w'[t].found /\ w'[t].current_text # <<>>
             /\ w'[t].current_text # w[t].last_text ) =>
              /\ w'[t].pc = "send_alive"
              /\ w'[t].inj_text = w'[t].current_text
              /\ w'[t].n_calls = w[t].n_calls + 1]_vars

\* C15 witness: one text was polled, its first injection failed, and the
\* second call of send_keys_to_tmate with it, on a later tick, succeeded
\* in the session that was alive all along.
C15_Witness ==
    \E t \in Threads :
        /\ w[t].pc = "send_ret" /\ w[t].ret /\ session
        /\ w[t].n_fail = 1 /\ w[t].n_calls = 2 /\ w[t].n_runs = 1
        /\ w[t].polls >= 2

\* C16: a failed fetch never ends watch_webpage and leaves last_text alone.
\* The step of a fetch goes to the sleep of the iteration (or into
\* send_keys_to_tmate); a failed fetch changes neither last_text nor the
\* number of injections; during a run of failed fetches the sleep leads to
\* the top of the loop and, the session alive, the top of the loop to the
\* next fetch; and a fetch that succeeds after failed ones with a non-empty
\* text other than last_text calls send_keys_to_tmate with it.
C16_FailedFetchKeepsLooping ==
    [][\A t \in Threads :
        /\ (w[t].pc = "fetch" /\ w'[t].pc \notin {"fetch", "killed"}) =>
              /\ w'[t].pc \in {"sleep", "send_alive"}
              /\ w'[t].cur_poll = "fail" =>
                    /\ w'[t].pc = "sleep"
                    /\ w'[t].last_text = w[t].last_text
                    /\ w'[t].n_calls = w[t].n_calls
                    /\ w'[t].streak = (IF w[t].cur_poll = "fail" THEN w[t].streak ELSE 0) + 1
        /\ (w[t].pc = "sleep" /\ w[t].cur_poll = "fail" /\ w'[t] # w[t]) =>
              w'[t].pc \in {"loop_top", "killed"}
        /\ (w[t].pc = "loop_top" /\ w[t].cur_poll = "fail" /\ w'[t] # w[t] /\ session) =>
              w'[t].pc \in {"fetch", "crashed", "killed"}
        /\ ( /\ w[t].pc = "fetch" /\ w[t].cur_poll = "fail"
             /\ w'[t].pc \notin {"fetch", "killed"} /\ w'[t].cur_poll = "ok"
             /\ w'[t].found /\ w'[t].current_text # <<>>
             /\ w'[t].current_text # w[t].last_text ) =>
              /\ w'[t].pc = "send_alive"
              /\ w'[t].inj_text = w'[t].current_text]_vars

\* C16 witness: two fetches in a row failed, the next one succeeded and the
\* command it carried has been injected.
C16_Witness ==
    \E t \in Threads :
        /\ w[t].pc = "send_ret" /\ w[t].ret /\ session
        /\ w[t].streak = 2 /\ w[t].cur_poll = "ok" /\ w[t].restored_after = 1
        /\ w[t].n_calls = 1

\* C17: in start_relay the liveness check before the creation leads to the
\* kill-session call when a session exists and straight to the creation
\* when none does; kill-session is called at most once, only there and
\* before any new-session call, so that after a new-session call there is
\* at most one session at the socket; without a prior session no kill is
\* issued, no error is recorded and the creation proceeds.
C17_KillBeforeCreate ==
    [][/\ (pc = "cleanup" /\ pc' # pc) =>
             IF session THEN pc' \in {"cleanup_kill", "crashed"}
                        ELSE pc' \in {"create", "crashed"}
       /\ kill_calls' # kill_calls =>
             /\ pc = "cleanup_kill" /\ pc' = "create"
             /\ kill_calls = 0 /\ kill_calls' = 1
             /\ ns_calls = 0
       /\ ns_calls' # ns_calls =>
             /\ pc = "create"
             /\ ~second_session'
       /\ (pc = "cleanup" /\ pc' = "create") =>
             /\ kill_calls' = 0 /\ ~session'
             /\ err' = "none" /\ main_exc' = "none"]_vars

\* C20: in watch_web a failed injection does not advance the dedup
\* boundary: the step in which the send-keys call of send_to_tmate fails
\* leaves last_seen_text as it was (so that the same text, polled again,
\* still differs from it and is injected again).
C20_FailedInjectionKeepsBoundary ==
    [][\A t \in Threads :
        (w[t].pc = "web_send" /\ w'[t].pc = "web_sleep" /\ ~w'[t].inj_ok) =>
            w'[t].last_text = w[t].last_text]_vars

====
